---- MODULE Spec2Model ----
(***************************************************************************)
(* A model of the yaml-to-imgdb enrichment pipeline:                       *)
(*   run-all.py            the driver                                      *)
(*   1-find-images.py      discovery (image search and download)           *)
(*   2-process-pngs.py     background removal                              *)
(*   3-upload-to-ibb.py    upload, structure repair and datatable merge    *)
(*                                                                         *)
(* Strings are sequences of one-character strings.  A YAML/Python value is *)
(* a record [t, v]: t is its Python type and v its text (a scalar) or, for *)
(* a dict, the mapping from keys (themselves values) to values.            *)
(***************************************************************************)
EXTENDS Integers, Sequences, FiniteSets, TLC

VARIABLES
    arg,    \* the argument of the function under check (pure-function specifications)
    ret,    \* its result, or the state of its loop
    pc,     \* the position of the function under check
    env,            \* the credentials set in the environment
    sources,        \* data-store/*.yaml: file name -> what yaml.safe_load makes of it
    disk,           \* the image files under data-store and data-store-processed
    processed_yaml, \* data-store-processed/*.yaml: file name -> document
    driver,         \* run-all.py: its position, the scripts started, their exit statuses
    stage_pc,       \* the position of the running script
    tasks,          \* 1-find-images.py: the tasks handed to the pool
    walk,           \* 2-process-pngs.py: the files os.walk has yet to yield
    up,             \* 3-upload-to-ibb.py: the files to process, the fragment and pool at hand
    calls,          \* the paid network operations of this run: [kind, target] -> how many
    done,           \* those of this run that succeeded
    earlier,        \* those of earlier runs that succeeded
    prev_out,       \* the output files as the previous run left them
    rerun           \* whether this is a run after the first

pureVars == <<arg, ret, pc>>

pipeVars == <<env, sources, disk, processed_yaml, driver, stage_pc, tasks, walk, up,
              calls, done, earlier, prev_out, rerun>>

vars == <<arg, ret, pc, env, sources, disk, processed_yaml, driver, stage_pc, tasks,
          walk, up, calls, done, earlier, prev_out, rerun>>

\* 3-upload-to-ibb.py before main(): nothing read, no pool
UpIdle == [pending |-> {}, file |-> "", content |-> <<>>, todo |-> {},
           design_house |-> <<>>, futures |-> <<>>, updated_products |-> <<>>,
           changed_any |-> FALSE, crashed |-> FALSE]

\* the pipeline is not run (pure-function specifications)
PipeOff ==
    /\ env = {} /\ sources = <<>> /\ disk = {} /\ processed_yaml = <<>>
    /\ driver = [pc |-> "off", started |-> <<>>, exits |-> <<>>, exit_code |-> 0]
    /\ stage_pc = "none" /\ tasks = <<>> /\ walk = {} /\ up = UpIdle
    /\ calls = <<>> /\ done = {} /\ earlier = {}
    /\ prev_out = [complete |-> FALSE, out |-> <<>>] /\ rerun = FALSE

-----------------------------------------------------------------------------
(* Python values *)

StrV(s) == [t |-> "str", v |-> s]

IntV(s) == [t |-> "int", v |-> s]

None == [t |-> "null", v |-> <<>>]

EmptyMap == <<>>

Dict(m) == [t |-> "dict", v |-> m]

IsDict(x) == x.t = "dict"

Put(m, k, x) == [y \in (DOMAIN m) \cup {k} |-> IF y = k THEN x ELSE m[y]]

Year == StrV(<<"y", "e", "a", "r">>)

Image == StrV(<<"i", "m", "a", "g", "e">>)

Unknown == StrV(<<"u", "n", "k", "n", "o", "w", "n">>)

\* a function's outcome: it returned value, or it raised
Returned(x) == [raised |-> FALSE, value |-> x]

Raised == [raised |-> TRUE, value |-> None]

-----------------------------------------------------------------------------
(* sanitize_name, as 1-find-images.py and 3-upload-to-ibb.py each define it *)

UpperCase == <<"A", "B", "C", "D", "E", "F", "G", "H", "I", "J", "K", "L", "M",
               "N", "O", "P", "Q", "R", "S", "T", "U", "V", "W", "X", "Y", "Z">>

LowerCase == <<"a", "b", "c", "d", "e", "f", "g", "h", "i", "j", "k", "l", "m",
               "n", "o", "p", "q", "r", "s", "t", "u", "v", "w", "x", "y", "z">>

Digits == {"0", "1", "2", "3", "4", "5", "6", "7", "8", "9"}

\* name.lower()
lower(s) ==
    [i \in DOMAIN s |->
        IF \E j \in DOMAIN UpperCase : UpperCase[j] = s[i]
        THEN LowerCase[CHOOSE j \in DOMAIN UpperCase : UpperCase[j] = s[i]]
        ELSE s[i]]

\* [a-z0-9]
IsAlnum(c) == c \in Digits \/ \E j \in DOMAIN LowerCase : LowerCase[j] = c

\* re.sub(r'[^a-z0-9]+', '-', name): every maximal run becomes one dash
RECURSIVE re_sub(_, _)
re_sub(s, in_run) ==
    IF s = <<>> THEN <<>>
    ELSE IF IsAlnum(Head(s)) THEN <<Head(s)>> \o re_sub(Tail(s), FALSE)
    ELSE IF in_run THEN re_sub(Tail(s), TRUE)
    ELSE <<"-">> \o re_sub(Tail(s), TRUE)

\* a slip: name.lstrip('-')
RECURSIVE strip_leading(_)
strip_leading(s) ==
    IF s = <<>> THEN s
    ELSE IF Head(s) = "-" THEN strip_leading(Tail(s))
    ELSE s

\* name.strip('-')
RECURSIVE strip(_)
strip(s) ==
    IF s = <<>> THEN s
    ELSE IF Head(s) = "-" THEN strip(Tail(s))
    ELSE IF s[Len(s)] = "-" THEN strip(SubSeq(s, 1, Len(s) - 1))
    ELSE s

\* 1-find-images.py
sanitize_name_find(name) == strip(re_sub(lower(name), FALSE))

\* 3-upload-to-ibb.py
sanitize_name_upload(name) == strip(re_sub(lower(name), FALSE))

-----------------------------------------------------------------------------
(* Formatting and files *)

Fields == <<[t |-> "str", v |-> <<"y", "e", "a", "r">>],
            [t |-> "str", v |-> <<"i", "m", "a", "g", "e">>],
            [t |-> "str", v |-> <<"n", "a", "m", "e">>]>>

\* repr() of a scalar
repr(x) ==
    IF x.t = "str" THEN <<"'">> \o x.v \o <<"'">>
    ELSE IF x.t = "null" THEN <<"N", "o", "n", "e">>
    ELSE IF x.t = "list" THEN <<"[", "]">>
    ELSE x.v

\* repr() of a record's fields from the n-th on, in the order of Fields
RECURSIVE repr_fields(_, _, _)
repr_fields(m, n, first) ==
    IF n > Len(Fields) THEN <<>>
    ELSE IF Fields[n] \notin DOMAIN m THEN repr_fields(m, n + 1, first)
    ELSE (IF first THEN <<>> ELSE <<",", " ">>)
         \o repr(Fields[n]) \o <<":", " ">> \o repr(m[Fields[n]])
         \o repr_fields(m, n + 1, FALSE)

\* f"{x}": str(x)
format(x) ==
    IF x.t = "str" THEN x.v
    ELSE IF x.t = "dict" THEN <<"{">> \o repr_fields(x.v, 1, TRUE) \o <<"}">>
    ELSE repr(x)

DATA_DIR == "data-store"

PROCESSED_DIR == "data-store-processed"

Path(root, dir, file) == [root |-> root, dir |-> dir, file |-> file]

\* save_dir / f"{product_sanitized}-{year}.jpg"
save_path(dh_sanitized, product_sanitized, year) ==
    Path(DATA_DIR, dh_sanitized,
         product_sanitized \o <<"-">> \o format(year) \o <<".", "j", "p", "g">>)

\* PROCESSED_DIR / dh_sanitized / f"{product_sanitized}-{year}.png"
png_path(dh_sanitized, product_sanitized, year) ==
    Path(PROCESSED_DIR, dh_sanitized,
         product_sanitized \o <<"-">> \o format(year) \o <<".", "p", "n", "g">>)

\* s ends with suffix
endswith(s, suffix) ==
    /\ Len(s) >= Len(suffix)
    /\ SubSeq(s, Len(s) - Len(suffix) + 1, Len(s)) = suffix

\* file.lower().endswith(('.jpg', '.jpeg', '.png'))
IsImageName(file) ==
    \/ endswith(lower(file), <<".", "j", "p", "g">>)
    \/ endswith(lower(file), <<".", "j", "p", "e", "g">>)
    \/ endswith(lower(file), <<".", "p", "n", "g">>)

\* os.path.splitext(relative_path)[0]: up to the last dot of the file name,
\* leading dots apart
splitext(file) ==
    LET dots == {i \in 2..Len(file) :
                    file[i] = "." /\ \E j \in 1..(i - 1) : file[j] # "."}
    IN IF dots = {} THEN file
       ELSE SubSeq(file, 1, (CHOOSE i \in dots : \A j \in dots : j <= i) - 1)

\* the destination of a source image: the same relative path, extension .png
dest_path(source) ==
    Path(PROCESSED_DIR, source.dir, splitext(source.file) \o <<".", "p", "n", "g">>)

\* "ibb.co" in image
ContainsIbbCo(s) ==
    \E i \in 1..(Len(s) - 5) : SubSeq(s, i, i + 5) = <<"i", "b", "b", ".", "c", "o">>

-----------------------------------------------------------------------------
(* 3-upload-to-ibb.py: unify_details *)

unify_details(details) ==
    IF IsDict(details) THEN details
    ELSE IF details.t \in {"int", "bool"} THEN Dict(Year :> details)
    ELSE IF details.t = "str" THEN Dict(Year :> details)
    ELSE Dict(Year :> StrV(<<>>))

-----------------------------------------------------------------------------
(* 3-upload-to-ibb.py: fix_yaml_structure *)

startswith2(s) == Len(s) >= 2 /\ s[1] = "_" /\ s[2] = "_"

RECURSIVE lstrip(_)
lstrip(s) == IF s # <<>> /\ Head(s) = "_" THEN lstrip(Tail(s)) ELSE s

replace(s) == [i \in 1..Len(s) |-> IF s[i] = "_" THEN " " ELSE s[i]]

\* a slip: only the two characters of the prefix are removed
clean_product_prefix_only(key) == StrV(replace(SubSeq(key.v, 3, Len(key.v))))

clean_product(key) == StrV(replace(lstrip(key.v)))

\* the state of the scan before its first key
FixStart == [i |-> 0, new_content |-> EmptyMap, current_design_house |-> None,
             raised |-> FALSE]

\* one iteration of the loop over content.items()
FixStep(st, key, value) ==
    IF key.t # "str" THEN [st EXCEPT !.raised = TRUE]
    ELSE IF ~startswith2(key.v)
    THEN [st EXCEPT !.i = st.i + 1,
                    !.current_design_house = key,
                    !.new_content = Put(st.new_content, key,
                                        IF IsDict(value) THEN value ELSE Dict(EmptyMap))]
    ELSE LET orphan == st.current_design_house = None
             dh == IF orphan THEN Unknown ELSE st.current_design_house
             nc == IF orphan /\ Unknown \notin DOMAIN st.new_content
                   THEN Put(st.new_content, Unknown, Dict(EmptyMap))
                   ELSE st.new_content
         IN [st EXCEPT !.i = st.i + 1,
                       !.current_design_house = dh,
                       !.new_content =
                           Put(nc, dh, Dict(Put(nc[dh].v, clean_product(key), value)))]

RECURSIVE FixFold(_, _)
FixFold(st, items) ==
    IF items = <<>> \/ st.raised THEN st
    ELSE FixFold(FixStep(st, Head(items)[1], Head(items)[2]), Tail(items))

-----------------------------------------------------------------------------
(* 3-upload-to-ibb.py: create_datatable *)

\* a file that yaml.safe_load cannot parse
Unparsable == [t |-> "error", v |-> <<>>]

\* yaml.safe_load(text) or {}: None and the empty containers are falsy
OrEmpty(x) ==
    IF x.t = "null" \/ (x.t \in {"list", "dict", "str"} /\ x.v = <<>>)
    THEN Dict(EmptyMap)
    ELSE x

\* products.items() written over the design house's entries
Overlay(old, products) ==
    [p \in (DOMAIN old) \cup (DOMAIN products) |->
        IF p \in DOMAIN products THEN products[p] ELSE old[p]]

\* a slip: the design house's entry is replaced by the fragment's product map
MergeContentReplacing(datatable, content) ==
    LET maps == {dh \in DOMAIN content : IsDict(content[dh])}
    IN [dh \in (DOMAIN datatable) \cup maps |->
           IF dh \in maps THEN content[dh] ELSE datatable[dh]]

\* for design_house, products in content.items(): ...
MergeContent(datatable, content) ==
    LET maps == {dh \in DOMAIN content : IsDict(content[dh])}
    IN [dh \in (DOMAIN datatable) \cup maps |->
           IF dh \in maps
           THEN Dict(Overlay(IF dh \in DOMAIN datatable THEN datatable[dh].v
                             ELSE EmptyMap,
                             content[dh].v))
           ELSE datatable[dh]]

MergeStart == [i |-> 0, datatable |-> EmptyMap, raised |-> FALSE]

\* one iteration of the loop over PROCESSED_DIR.glob("*.yaml")
MergeStep(st, file) ==
    IF file = Unparsable THEN [st EXCEPT !.i = st.i + 1]
    ELSE IF ~IsDict(OrEmpty(file)) THEN [st EXCEPT !.raised = TRUE]
    ELSE [st EXCEPT !.i = st.i + 1,
                    !.datatable = MergeContent(st.datatable, OrEmpty(file).v)]

RECURSIVE MergeFold(_, _)
MergeFold(st, files) ==
    IF files = <<>> \/ st.raised THEN st
    ELSE MergeFold(MergeStep(st, Head(files)), Tail(files))

-----------------------------------------------------------------------------
(* The outbound HTTP calls: 1-find-images.py:28-36 and 3-upload-to-ibb.py:33-41 *)
(* mount Retry(total=3, status_forcelist=...) on SESSION; the search goes     *)
(* through GoogleSearch and the download of the processed image through       *)
(* requests.get, neither through SESSION                                      *)

HttpKinds == {"search", "download", "processed_download", "upload"}

\* Retry(total=3): the retries allowed after the first attempt
RetryTotal == 3

status_forcelist == {429, 500, 502, 503, 504}

\* Retry(...) is built without allowed_methods: urllib3 retries on a status
\* only the idempotent methods
AllowedMethods == {"HEAD", "GET", "PUT", "DELETE", "OPTIONS", "TRACE"}

\* SESSION.get (1-find-images.py:91) and SESSION.post (3-upload-to-ibb.py:118)
UsesSession(kind) == kind \in {"download", "upload"}

Method(kind) == IF kind = "upload" THEN "POST" ELSE "GET"

HttpStart(kind) ==
    [attempts |-> 0,
     total |-> IF UsesSession(kind) THEN RetryTotal ELSE 0,
     outcome |-> "pending",
     status |-> 0]

\* one attempt, answered with status: the call is retried while the policy
\* allows, raises once the retries are exhausted, else returns the response
HttpStep(st, kind, status) ==
    LET is_retry == /\ UsesSession(kind)
                    /\ Method(kind) \in AllowedMethods
                    /\ status \in status_forcelist
    IN IF is_retry
       THEN [attempts |-> st.attempts + 1,
             total |-> st.total - 1,
             outcome |-> IF st.total - 1 < 0 THEN "raised" ELSE "pending",
             status |-> status]
       ELSE [attempts |-> st.attempts + 1,
             total |-> st.total,
             outcome |-> "response",
             status |-> status]

RECURSIVE HttpFold(_, _, _)
HttpFold(st, kind, server) ==
    IF st.outcome # "pending" \/ st.attempts >= Len(server) THEN st
    ELSE HttpFold(HttpStep(st, kind, server[st.attempts + 1]), kind, server)

\* the call of the given kind to a server that answers its successive
\* attempts with the statuses of server
HttpCall(kind, server) == HttpFold(HttpStart(kind), kind, server)

\* whether the call carries a timeout: SESSION.get(img_url, timeout=5) does,
\* requests.get(output_url) and SESSION.post(url, data=...) do not
HasTimeout(kind) == kind = "download"

-----------------------------------------------------------------------------
(* Inputs of the pure-function specifications *)

Y1949 == <<"1", "9", "4", "9">>

Y1999 == <<"1", "9", "9", "9">>

Y2005 == <<"2", "0", "0", "5">>

HostedUrl == StrV(<<"i", "b", "b", ".", "c", "o", "/", "x">>)

NameField == StrV(<<"n", "a", "m", "e">>)

\* every shape yaml.safe_load can hand to unify_details
Scalars == {IntV(Y1949), StrV(Y1949), None, [t |-> "bool", v |-> <<"T">>],
            [t |-> "float", v |-> <<"1", ".", "5">>], [t |-> "list", v |-> <<>>]}

FieldValues == {IntV(Y1949), HostedUrl, None}

Records ==
    {Dict(m) : m \in UNION {[F -> FieldValues] : F \in SUBSET {Year, Image, NameField}}}

UnifyInputs == Scalars \cup Records

-----------------------------------------------------------------------------
(* SpecUnify: unify_details applied to every raw product value *)

InitUnify == /\ arg \in UnifyInputs
             /\ ret = None
             /\ pc = "unify"
             /\ PipeOff

UnifyCall == /\ pc = "unify"
             /\ ret' = Returned(unify_details(arg))
             /\ pc' = "unified"
             /\ UNCHANGED <<arg, pipeVars>>

NextUnify == UnifyCall

SpecUnify == InitUnify /\ [][NextUnify]_vars

\* C5: unify_details returns, for every raw product value, a record that
\* contains a 'year' key, and never raises.
C5_UnifyHasYear ==
    pc = "unified" =>
        /\ ~ret.raised
        /\ IsDict(ret.value)
        /\ Year \in DOMAIN ret.value.v

-----------------------------------------------------------------------------
(* SpecFix: fix_yaml_structure, one key per step, over every ordered key    *)
(* sequence of at most MaxKeys keys, and over the spec's example            *)

MaxKeys == 3

HouseA == StrV(<<"A">>)

UnderX == StrV(<<"_", "x">>)

ProdX == StrV(<<"_", "_", "x">>)

ProdXXX == StrV(<<"_", "_", "_", "x">>)

ProdXY == StrV(<<"_", "_", "x", "_", "y">>)

CleanX == StrV(<<"x">>)

FixKeys == {HouseA, Unknown, UnderX, ProdX, ProdXXX, ProdXY}

FixValues == {None, IntV(Y1999), Dict(CleanX :> IntV(Y2005))}

JasperMorrison ==
    StrV(<<"J", "a", "s", "p", "e", "r", " ", "M", "o", "r", "r", "i", "s", "o", "n">>)

ExampleContent ==
    << <<JasperMorrison, None>>,
       <<StrV(<<"_", "_", "C", "h", "a", "i", "r", "_", "O", "n", "e">>), IntV(Y1999)>>,
       <<StrV(<<"_", "_", "G", "l", "o", "_", "B", "a", "l", "l">>), IntV(Y2005)>> >>

ExampleRepaired ==
    JasperMorrison :>
        Dict((StrV(<<"C", "h", "a", "i", "r", " ", "O", "n", "e">>) :> IntV(Y1999))
             @@ (StrV(<<"G", "l", "o", " ", "B", "a", "l", "l">>) :> IntV(Y2005)))

\* the items of a mapping: its keys are distinct
FixInputs ==
    {ExampleContent} \cup
    {c \in UNION {[1..n -> FixKeys \X FixValues] : n \in 0..MaxKeys} :
        \A i, j \in DOMAIN c : c[i][1] = c[j][1] => i = j}

InitFix == /\ arg \in FixInputs
           /\ ret = FixStart
           /\ pc = "fix"
           /\ PipeOff

\* for key, value in content.items(): ...
FixIter == /\ pc = "fix"
           /\ ret.i < Len(arg)
           /\ ret' = FixStep(ret, arg[ret.i + 1][1], arg[ret.i + 1][2])
           /\ UNCHANGED <<arg, pc, pipeVars>>

\* return new_content
FixReturn == /\ pc = "fix"
             /\ ret.i = Len(arg)
             /\ pc' = "fixed"
             /\ UNCHANGED <<arg, ret, pipeVars>>

NextFix == FixIter \/ FixReturn

SpecFix == InitFix /\ [][NextFix]_vars

(* C6, as the claim reads *)

Prefixed(k) == Len(k.v) >= 2 /\ SubSeq(k.v, 1, 2) = <<"_", "_">>

Spaced(s) == [i \in DOMAIN s |-> IF s[i] = "_" THEN " " ELSE s[i]]

\* the key with the prefix '__' stripped and underscores turned into spaces
PrefixStripped(k) == StrV(Spaced(SubSeq(k.v, 3, Len(k.v))))

\* the key with all its leading underscores stripped and the remaining ones
\* turned into spaces
LeadingStripped(k) ==
    LET n == CHOOSE m \in 0..Len(k.v) :
                 /\ \A j \in 1..m : k.v[j] = "_"
                 /\ m < Len(k.v) => k.v[m + 1] # "_"
    IN StrV(Spaced(SubSeq(k.v, n + 1, Len(k.v))))

\* the design house a prefixed key at position i belongs to: the most recently
\* seen key without the prefix, "unknown" when there is none
HouseAt(i) ==
    LET H == {j \in 1..i : ~Prefixed(arg[j][1])}
    IN IF H = {} THEN Unknown
       ELSE arg[CHOOSE j \in H : \A h \in H : h <= j][1]

\* what the scan has done with the key it processed last, the product name
\* being Name(key)
LastKeyPlaced(Name(_)) ==
    LET key == arg[ret.i][1]
        value == arg[ret.i][2]
        nc == ret.new_content
    IN IF ~Prefixed(key)
       THEN /\ ret.current_design_house = key
            /\ key \in DOMAIN nc
            /\ nc[key] = (IF IsDict(value) THEN value ELSE Dict(EmptyMap))
       ELSE /\ ret.current_design_house = HouseAt(ret.i)
            /\ HouseAt(ret.i) \in DOMAIN nc
            /\ IsDict(nc[HouseAt(ret.i)])
            /\ Name(key) \in DOMAIN nc[HouseAt(ret.i)].v
            /\ nc[HouseAt(ret.i)].v[Name(key)] = value

ExampleHolds ==
    (arg = ExampleContent /\ pc = "fixed") => ret.new_content = ExampleRepaired

\* C6 (as claimed): the scan makes each key without the '__' prefix the current
\* design house and seeds its product map; it attaches each '__'-prefixed key,
\* with the prefix stripped and underscores turned into spaces, to the most
\* recently seen design house, or to "unknown" when there is none; the example
\* of the spec is repaired as stated.
C6_RepairPrefixStripped ==
    /\ (pc \in {"fix", "fixed"} /\ ret.i >= 1) =>
           (~ret.raised /\ LastKeyPlaced(PrefixStripped))
    /\ ExampleHolds

\* C6 (amended): the same, the product name being the key with all its leading
\* underscores stripped, not only the two of the prefix.
C6_RepairLeadingStripped ==
    /\ (pc \in {"fix", "fixed"} /\ ret.i >= 1) =>
           (~ret.raised /\ LastKeyPlaced(LeadingStripped))
    /\ ExampleHolds

\* a key with three leading underscores has been attached to a design house
\* seen before it, and the example has been repaired
C6_Witness ==
    \/ /\ pc = "fix"
       /\ ret.i >= 2
       /\ arg[ret.i][1] = ProdXXX
       /\ ret.current_design_house = HouseA
       /\ CleanX \in DOMAIN ret.new_content[HouseA].v
    \/ (arg = ExampleContent /\ pc = "fixed" /\ ret.new_content = ExampleRepaired)

-----------------------------------------------------------------------------
(* SpecMerge: create_datatable over every sequence of at most MaxFragments  *)
(* enriched fragments, in the order the directory listing yields them       *)

MaxFragments == 2

HouseB == StrV(<<"B">>)

CleanY == StrV(<<"y">>)

\* two records of one product that no field-wise merge would produce
RecordNamed == Dict((Year :> IntV(Y1949)) @@ (NameField :> StrV(<<"x">>)))

RecordHosted == Dict((Year :> IntV(Y1949)) @@ (Image :> HostedUrl))

ProductMaps ==
    {Dict(m) : m \in UNION {[P -> {RecordNamed, RecordHosted}] :
                                P \in SUBSET {CleanX, CleanY}}}

\* a fragment catalog: design house A is absent, not a product map, or a
\* product map; design house B is absent or a product map
FragmentCatalogs ==
    {Dict(a @@ b) :
        a \in {EmptyMap} \cup {HouseA :> x : x \in ProductMaps \cup {None}},
        b \in {EmptyMap, HouseB :> Dict(CleanX :> RecordNamed)}}

MergeInputs ==
    UNION {[1..n -> FragmentCatalogs \cup {Unparsable}] : n \in 0..MaxFragments}

InitMerge == /\ arg \in MergeInputs
             /\ ret = MergeStart
             /\ pc = "merge"
             /\ PipeOff

\* for yf in PROCESSED_DIR.glob("*.yaml"): ...
MergeIter == /\ pc = "merge"
             /\ ret.i < Len(arg)
             /\ ~ret.raised
             /\ ret' = MergeStep(ret, arg[ret.i + 1])
             /\ UNCHANGED <<arg, pc, pipeVars>>

\* output_path.write_text(yaml.dump(datatable, sort_keys=False))
MergeWrite == /\ pc = "merge"
              /\ ret.i = Len(arg)
              /\ pc' = "merged"
              /\ UNCHANGED <<arg, ret, pipeVars>>

NextMerge == MergeIter \/ MergeWrite

SpecMerge == InitMerge /\ [][NextMerge]_vars

\* fragment i holds the key (dh, p): dh is one of its design houses, its value
\* is a product map, and p is one of its products
Holds(i, dh, p) ==
    /\ arg[i] # Unparsable
    /\ dh \in DOMAIN arg[i].v
    /\ IsDict(arg[i].v[dh])
    /\ p \in DOMAIN arg[i].v[dh].v

AllKeys ==
    UNION {DOMAIN arg[i].v : i \in {j \in DOMAIN arg : arg[j] # Unparsable}}

AllProducts == {CleanX, CleanY}

\* C7: the datatable's keys are the union of the (design house, product) keys
\* of the fragments whose design-house value is a product map, each entry is
\* the whole record of the last fragment in processing order that holds the
\* key, and a design house whose value is no product map is skipped without
\* raising.
C7_LastWriteWins ==
    pc = "merged" =>
        /\ ~ret.raised
        /\ \A dh \in AllKeys \cup DOMAIN ret.datatable : \A p \in AllProducts :
               LET H == {i \in DOMAIN arg : Holds(i, dh, p)}
                   in_table == /\ dh \in DOMAIN ret.datatable
                               /\ p \in DOMAIN ret.datatable[dh].v
               IN /\ in_table <=> H # {}
                  /\ in_table =>
                        ret.datatable[dh].v[p] =
                            arg[CHOOSE i \in H : \A h \in H : h <= i].v[dh].v[p]
        /\ \A dh \in DOMAIN ret.datatable :
               DOMAIN ret.datatable[dh].v \subseteq AllProducts

\* two fragments disagree on a key, the first also holds a key of its own,
\* and the merge has ended
C7_Witness ==
    /\ pc = "merged"
    /\ Len(arg) = 2
    /\ Holds(1, HouseA, CleanX) /\ Holds(2, HouseA, CleanX)
    /\ Holds(1, HouseA, CleanY) /\ ~Holds(2, HouseA, CleanY)
    /\ arg[1].v[HouseA].v[CleanX] = RecordNamed
    /\ arg[2].v[HouseA].v[CleanX] = RecordHosted
    /\ ret.datatable[HouseA].v[CleanX] = RecordHosted
    /\ ret.datatable[HouseA].v[CleanY] = arg[1].v[HouseA].v[CleanY]

-----------------------------------------------------------------------------
(* SpecRetry: one outbound call of each kind, attempt by attempt, against    *)
(* every server that answers MaxResponses attempts                           *)

MaxResponses == 5

Statuses == {200, 404, 429, 503}

InitRetry == /\ arg \in [kind : HttpKinds, server : [1..MaxResponses -> Statuses]]
             /\ ret = HttpStart(arg.kind)
             /\ pc = "http"
             /\ PipeOff

HttpAttempt ==
    /\ pc = "http"
    /\ ret.attempts < Len(arg.server)
    /\ ret' = HttpStep(ret, arg.kind, arg.server[ret.attempts + 1])
    /\ pc' = IF ret'.outcome = "pending" THEN "http" ELSE "http_done"
    /\ UNCHANGED <<arg, pipeVars>>

NextRetry == HttpAttempt

SpecRetry == InitRetry /\ [][NextRetry]_vars

\* C4: every outbound call (search, download, processed-image download,
\* upload) whose server always answers with a transient status is attempted
\* exactly 3 times and then fails; no call is attempted a 4th time; a
\* non-retryable status is never retried.
C4_ThreeAttempts ==
    pc = "http_done" =>
        /\ ret.attempts <= 3
        /\ (\A i \in DOMAIN arg.server : arg.server[i] \in status_forcelist) =>
               /\ ret.attempts = 3
               /\ (ret.outcome = "raised" \/ ret.status # 200)
        /\ arg.server[ret.attempts] \notin status_forcelist =>
               \A i \in 1..(ret.attempts - 1) : arg.server[i] \in status_forcelist

-----------------------------------------------------------------------------
(* The pipeline: its inputs *)

Vi == StrV(<<"V", "i">>)

Ch == StrV(<<"C", "h">>)

La == StrV(<<"L", "a">>)

Y56 == <<"5", "6">>

Y60 == <<"6", "0">>

\* a source file that holds a mapping: its top-level items, in file order
Items(seq) == [t |-> "items", v |-> seq]

\* the mapping that a document's items make
ItemsMap(items) ==
    [k \in {items[i][1] : i \in DOMAIN items} |->
        items[CHOOSE i \in DOMAIN items : items[i][1] = k][2]]

\* yaml.safe_load(yaml_file.read_text()) or {}
safe_load(doc) ==
    IF doc = Unparsable THEN Raised
    ELSE IF doc.t = "items" THEN Returned(Dict(ItemsMap(doc.v)))
    ELSE Returned(OrEmpty(doc))

\* {Vi: {Ch: 56}}
PlainFragment == Items(<< <<Vi, Dict(Ch :> IntV(Y56))>> >>)

\* {Vi: {Ch: {year: 56, image: null}, La: 60}}
PairFragment ==
    Items(<< <<Vi, Dict((Ch :> Dict((Year :> IntV(Y56)) @@ (Image :> None)))
                        @@ (La :> IntV(Y60)))>> >>)

\* {Vi: {Ch: {year: 56, image: "ibb.co/x"}}}
HostedFragment ==
    Items(<< <<Vi, Dict(Ch :> Dict((Year :> IntV(Y56)) @@ (Image :> HostedUrl)))>> >>)

\* {Vi: null, __Ch: 56}
RepairFragment == Items(<< <<Vi, None>>, <<StrV(<<"_", "_", "C", "h">>), IntV(Y56)>> >>)

\* a file that holds a YAML list of one item
ListFragment == [t |-> "list", v |-> <<StrV(<<"x">>)>>]

\* {Vi: {Ch: {year: 56}}}
RecordFragment == Items(<< <<Vi, Dict(Ch :> Dict(Year :> IntV(Y56)))>> >>)

\* {Vi: {Ch: 60}}
OtherYearFragment == Items(<< <<Vi, Dict(Ch :> IntV(Y60))>> >>)

\* {Vi: {Ch: 56, ch: 56}}: two display names of one slug, with the same year
CollideFragment ==
    Items(<< <<Vi, Dict((Ch :> IntV(Y56)) @@ (StrV(<<"c", "h">>) :> IntV(Y56)))>> >>)

SourceDirs ==
    {"a.yaml" :> PlainFragment,
     "a.yaml" :> PairFragment,
     "a.yaml" :> HostedFragment,
     "a.yaml" :> RepairFragment,
     "a.yaml" :> CollideFragment,
     ("a.yaml" :> ListFragment) @@ ("b.yaml" :> PlainFragment),
     ("a.yaml" :> Unparsable) @@ ("b.yaml" :> PlainFragment)}

AllCreds == {"SERP_API_KEY", "REPLICATE_API_TOKEN", "IBB_API_KEY"}

\* every credential set, or one missing
Envs == {AllCreds} \cup {AllCreds \ {c} : c \in AllCreds}

\* data-store-processed/vi/ch-56.png
ChPng == png_path(sanitize_name_upload(Vi.v), sanitize_name_upload(Ch.v), IntV(Y56))

\* what a first run may start from: the credentials set, the source
\* fragments, and the image files already there
\*   - every fragment directory with every credential set
\*   - one credential missing
\*   - a product in record form whose processed image is there already
\*   - two fragments that disagree on a product, without the search key
Setups ==
    {[env |-> AllCreds, sources |-> s, disk |-> {}] : s \in SourceDirs}
    \cup {[env |-> e, sources |-> "a.yaml" :> PlainFragment, disk |-> {}] : e \in Envs}
    \cup {[env |-> AllCreds \ {"IBB_API_KEY"}, sources |-> "a.yaml" :> PairFragment,
           disk |-> {}]}
    \cup {[env |-> AllCreds, sources |-> "a.yaml" :> RecordFragment, disk |-> {ChPng}]}
    \cup {[env |-> AllCreds \ {"SERP_API_KEY"},
           sources |-> ("a.yaml" :> PlainFragment) @@ ("b.yaml" :> OtherYearFragment),
           disk |-> {}]}

\* a server that answers every attempt with the same status
Always(status) == [i \in 1..MaxResponses |-> status]

Servers == {Always(200), Always(404), Always(503)}

\* the orders in which a directory listing may yield the files
Orders(files) ==
    {o \in [1..Cardinality(files) -> files] : \A i, j \in DOMAIN o : o[i] = o[j] => i = j}

Inc(bag, c) == IF c \in DOMAIN bag THEN [bag EXCEPT ![c] = @ + 1] ELSE bag @@ (c :> 1)

Op(kind, target) == [kind |-> kind, target |-> target]

-----------------------------------------------------------------------------
(* run-all.py *)

SCRIPTS == <<"1-find-images.py", "2-process-pngs.py", "3-upload-to-ibb.py",
             "4-generate-and-deploy.py">>

DriverStart == [pc |-> "next", started |-> <<>>, exits |-> <<>>, exit_code |-> 0]

\* a slip: subprocess.run without check=True
DriverAfterUnchecked(d, status) ==
    [d EXCEPT !.exits = Append(@, status),
              !.pc = IF Len(d.started) = Len(SCRIPTS) THEN "completed" ELSE "next",
              !.exit_code = 0]

\* subprocess.run(..., check=True) returns or raises CalledProcessError
DriverAfter(d, status) ==
    [d EXCEPT !.exits = Append(@, status),
              !.pc = IF status # 0 THEN "aborted"
                     ELSE IF Len(d.started) = Len(SCRIPTS) THEN "completed"
                     ELSE "next",
              !.exit_code = IF status # 0 THEN 1 ELSE 0]

Running(script) ==
    /\ driver.pc = "wait"
    /\ driver.started[Len(driver.started)] = script

\* for script in SCRIPTS: subprocess.run(["python3", script], check=True)
DriverRun ==
    /\ driver.pc = "next"
    /\ driver' = [driver EXCEPT !.pc = "wait",
                                !.started = Append(@, SCRIPTS[Len(@) + 1])]
    /\ stage_pc' = "start"
    /\ UNCHANGED <<pureVars, env, sources, disk, processed_yaml, tasks, walk, up,
                   calls, done, earlier, prev_out, rerun>>

\* the running script ends with this exit status
Exit(status) ==
    /\ driver' = DriverAfter(driver, status)
    /\ stage_pc' = "none"

-----------------------------------------------------------------------------
(* 1-find-images.py *)

load_step(products, doc) ==
    LET r == safe_load(doc)
    IN IF r.raised \/ ~IsDict(r.value) THEN products
       ELSE LET content == r.value.v
            IN [dh \in (DOMAIN products) \cup (DOMAIN content) |->
                   LET old == IF dh \in DOMAIN products THEN products[dh] ELSE EmptyMap
                   IN IF dh \in DOMAIN content /\ IsDict(content[dh])
                      THEN Overlay(old, content[dh].v)
                      ELSE old]

RECURSIVE load_fold(_, _)
load_fold(products, docs) ==
    IF docs = <<>> THEN products
    ELSE load_fold(load_step(products, Head(docs)), Tail(docs))

\* load_products(), the directory listing yielding the files in this order
load_products(order) == load_fold(EmptyMap, [i \in DOMAIN order |-> sources[order[i]]])

TaskIds(products) ==
    UNION {{<<dh, p>> : p \in DOMAIN products[dh]} : dh \in DOMAIN products}

\* main(): the tasks are built and handed to the pool
S1Start ==
    /\ Running(SCRIPTS[1])
    /\ stage_pc = "start"
    /\ \E order \in Orders(DOMAIN sources) :
          LET products == load_products(order)
          IN tasks' = [t \in TaskIds(products) |->
                          [year |-> products[t[1]][t[2]], state |-> "queued",
                           net |-> "none", wrote |-> FALSE]]
    /\ stage_pc' = "run"
    /\ UNCHANGED <<pureVars, env, sources, disk, processed_yaml, driver, walk, up,
                   calls, done, earlier, prev_out, rerun>>

TaskPath(t) ==
    save_path(sanitize_name_find(t[1].v), sanitize_name_find(t[2].v), tasks[t].year)

\* a slip: download_image without `if save_path.exists(): return`
S1CheckBlind(t) ==
    /\ Running(SCRIPTS[1])
    /\ stage_pc = "run"
    /\ tasks[t].state = "queued"
    /\ tasks' = [tasks EXCEPT ![t] =
          IF t[1].t # "str" \/ t[2].t # "str"
          THEN [@ EXCEPT !.state = "done", !.net = "raised"]
          ELSE [@ EXCEPT !.state = "fetch"]]
    /\ UNCHANGED <<pureVars, env, sources, disk, processed_yaml, driver, stage_pc,
                   walk, up, calls, done, earlier, prev_out, rerun>>

\* download_image up to `if save_path.exists(): return`
S1Check(t) ==
    /\ Running(SCRIPTS[1])
    /\ stage_pc = "run"
    /\ tasks[t].state = "queued"
    /\ tasks' = [tasks EXCEPT ![t] =
          IF t[1].t # "str" \/ t[2].t # "str"
          THEN [@ EXCEPT !.state = "done", !.net = "raised"]
          ELSE IF TaskPath(t) \in disk
          THEN [@ EXCEPT !.state = "done", !.net = "skipped"]
          ELSE [@ EXCEPT !.state = "fetch"]]
    /\ UNCHANGED <<pureVars, env, sources, disk, processed_yaml, driver, stage_pc,
                   walk, up, calls, done, earlier, prev_out, rerun>>

\* what the image search may answer: without the key, no result
SearchOutcomes ==
    IF "SERP_API_KEY" \in env THEN {"found", "none", "raises"} ELSE {"none", "raises"}

\* download_image from the search on
S1Fetch(t) ==
    /\ Running(SCRIPTS[1])
    /\ stage_pc = "run"
    /\ tasks[t].state = "fetch"
    /\ calls' = Inc(calls, Op("search", TaskPath(t)))
    /\ \E outcome \in SearchOutcomes :
          \/ /\ outcome = "none"
             /\ tasks' = [tasks EXCEPT ![t].state = "done", ![t].net = "no_result"]
             /\ UNCHANGED <<disk, done>>
          \/ /\ outcome = "raises"
             /\ tasks' = [tasks EXCEPT ![t].state = "done", ![t].net = "raised"]
             /\ UNCHANGED <<disk, done>>
          \/ \* the server of the image never answers
             /\ outcome = "found"
             /\ tasks' = [tasks EXCEPT
                    ![t].state = IF HasTimeout("download") THEN "done" ELSE "waiting",
                    ![t].net = IF HasTimeout("download") THEN "raised" ELSE "none"]
             /\ UNCHANGED <<disk, done>>
          \/ /\ outcome = "found"
             /\ \E server \in Servers :
                   LET resp == HttpCall("download", server)
                   IN IF resp.outcome = "raised"
                      THEN /\ tasks' = [tasks EXCEPT ![t].state = "done",
                                                     ![t].net = "raised"]
                           /\ UNCHANGED <<disk, done>>
                      ELSE \* save_path.write_bytes(resp.content), whatever the status
                           /\ disk' = disk \cup {TaskPath(t)}
                           /\ tasks' = [tasks EXCEPT
                                  ![t].state = "done",
                                  ![t].wrote = TRUE,
                                  ![t].net = IF resp.status = 200 THEN "ok"
                                             ELSE "http_error"]
                           /\ done' = IF resp.status = 200
                                      THEN done \cup {Op("search", TaskPath(t))}
                                      ELSE done
    /\ UNCHANGED <<pureVars, env, sources, processed_yaml, driver, stage_pc, walk, up,
                   earlier, prev_out, rerun>>

\* the pool is joined; exceptions of the tasks are never looked at
S1Exit ==
    /\ Running(SCRIPTS[1])
    /\ stage_pc = "run"
    /\ \A t \in DOMAIN tasks : tasks[t].state = "done"
    /\ Exit(0)
    /\ UNCHANGED <<pureVars, env, sources, disk, processed_yaml, tasks, walk, up,
                   calls, done, earlier, prev_out, rerun>>

-----------------------------------------------------------------------------
(* 2-process-pngs.py *)

\* the token check, then os.walk('data-store')
S2Start ==
    /\ Running(SCRIPTS[2])
    /\ stage_pc = "start"
    /\ IF "REPLICATE_API_TOKEN" \notin env
       THEN /\ Exit(1)
            /\ UNCHANGED walk
       ELSE /\ walk' = {f \in disk : f.root = DATA_DIR /\ IsImageName(f.file)}
            /\ stage_pc' = "run"
            /\ UNCHANGED driver
    /\ UNCHANGED <<pureVars, env, sources, disk, processed_yaml, tasks, up,
                   calls, done, earlier, prev_out, rerun>>

\* one iteration of the loop over the files
S2File(f) ==
    /\ Running(SCRIPTS[2])
    /\ stage_pc = "run"
    /\ f \in walk
    /\ walk' = walk \ {f}
    /\ IF dest_path(f) \in disk
       THEN UNCHANGED <<disk, calls, done, stage_pc>>
       ELSE /\ calls' = Inc(calls, Op("removal", dest_path(f)))
            /\ \/ \* client.run raises
                  UNCHANGED <<disk, done, stage_pc>>
               \/ \E server \in Servers :
                     LET resp == HttpCall("processed_download", server)
                     IN /\ IF resp.outcome = "raised" \/ resp.status >= 400
                           THEN UNCHANGED <<disk, done>>
                           ELSE /\ disk' = disk \cup {dest_path(f)}
                                /\ done' = done \cup {Op("removal", dest_path(f))}
                        /\ UNCHANGED stage_pc
               \/ \* the server of the processed image never answers
                  /\ IF HasTimeout("processed_download")
                     THEN UNCHANGED stage_pc
                     ELSE stage_pc' = "waiting"
                  /\ UNCHANGED <<disk, done>>
    /\ UNCHANGED <<pureVars, env, sources, processed_yaml, driver, tasks, up,
                   earlier, prev_out, rerun>>

S2Exit ==
    /\ Running(SCRIPTS[2])
    /\ stage_pc = "run"
    /\ walk = {}
    /\ Exit(0)
    /\ UNCHANGED <<pureVars, env, sources, disk, processed_yaml, tasks, walk, up,
                   calls, done, earlier, prev_out, rerun>>

-----------------------------------------------------------------------------
(* 3-upload-to-ibb.py *)

\* fix_yaml_structure(content), content being yaml.safe_load(...) or {}
fix_yaml_structure(doc) ==
    IF doc.t = "items"
    THEN LET st == FixFold(FixStart, doc.v)
         IN IF st.raised THEN Raised ELSE Returned(Dict(st.new_content))
    ELSE IF OrEmpty(doc) = Dict(EmptyMap) THEN Returned(Dict(EmptyMap))
    ELSE Raised

\* what a future holds once upload_entry has run
Result(details, changed, net) ==
    [state |-> "done", raised |-> FALSE, details |-> details, changed |-> changed,
     net |-> net]

Uncaught == [state |-> "done", raised |-> TRUE, details |-> None, changed |-> FALSE,
             net |-> "uncaught"]

\* a future, with the record its task was submitted with
Future(input, r) ==
    [state |-> r.state, raised |-> r.raised, details |-> r.details,
     changed |-> r.changed, net |-> r.net, input |-> input]

Submitted(input) ==
    Future(input, [state |-> "submitted", raised |-> FALSE, details |-> input,
                   changed |-> FALSE, net |-> "none"])

\* whether `"ibb.co" in details["image"]` raises: the image is no container
ImageTestRaises(d) ==
    /\ Image \in DOMAIN d.v
    /\ d.v[Image].t \notin {"str", "list", "dict"}

\* "image" in details and "ibb.co" in details["image"]
AlreadyHosted(d) ==
    /\ Image \in DOMAIN d.v
    /\ d.v[Image].t = "str"
    /\ ContainsIbbCo(d.v[Image].v)

\* details.get("year", "")
YearOf(d) == IF Year \in DOMAIN d.v THEN d.v[Year] ELSE StrV(<<>>)

UploadPath(design_house, product, d) ==
    png_path(sanitize_name_upload(design_house.v), sanitize_name_upload(product.v),
             YearOf(d))

\* what the hosting service may answer to the upload
UploadAnswers ==
    {"url", "no_url", "bad_body", "status_404", "status_503", "no_answer", "never"}

\* a future whose task is blocked in SESSION.post
Waiting(details) ==
    [state |-> "waiting", raised |-> FALSE, details |-> details, changed |-> FALSE,
     net |-> "none"]

\* upload_entry(design_house, product, details), the service answering so:
\* [result, posted (whether the upload was sent), hosted (whether it gave a URL)]
upload_entry(design_house, product, details, answer) ==
    LET d == unify_details(details)
        quiet(r) == [result |-> r, posted |-> FALSE, hosted |-> FALSE]
    IN IF "IBB_API_KEY" \notin env THEN quiet(Result(details, FALSE, "no_key"))
       ELSE IF ImageTestRaises(d) THEN quiet(Uncaught)
       ELSE IF AlreadyHosted(d) THEN quiet(Result(d, FALSE, "skipped"))
       ELSE IF design_house.t # "str" \/ product.t # "str" THEN quiet(Uncaught)
       ELSE IF UploadPath(design_house, product, d) \notin disk
       THEN quiet(Result(d, FALSE, "no_png"))
       ELSE LET resp == HttpCall("upload",
                                 IF answer = "status_404" THEN Always(404)
                                 ELSE IF answer = "status_503" THEN Always(503)
                                 ELSE Always(200))
            IN IF answer = "never"
               THEN IF HasTimeout("upload")
                    THEN [result |-> Result(d, FALSE, "raised"),
                          posted |-> TRUE, hosted |-> FALSE]
                    ELSE [result |-> Waiting(d), posted |-> TRUE, hosted |-> FALSE]
               ELSE IF answer = "no_answer"
               THEN [result |-> Result(d, FALSE, "raised"),
                     posted |-> TRUE, hosted |-> FALSE]
               ELSE IF resp.outcome = "raised" \/ resp.status >= 400
               THEN [result |-> Result(d, FALSE, "http_error"),
                     posted |-> TRUE, hosted |-> FALSE]
               ELSE IF answer = "bad_body"
               THEN [result |-> Result(d, FALSE, "raised"),
                     posted |-> TRUE, hosted |-> FALSE]
               ELSE IF answer = "no_url"
               THEN \* details["image"] = data.get("url", "")
                    [result |-> Result(Dict(Put(d.v, Image, StrV(<<>>))), TRUE, "no_url"),
                     posted |-> TRUE, hosted |-> FALSE]
               ELSE [result |-> Result(Dict(Put(d.v, Image, HostedUrl)), TRUE, "ok"),
                     posted |-> TRUE, hosted |-> TRUE]

\* main(): DATA_DIR.glob("*.yaml")
S3Start ==
    /\ Running(SCRIPTS[3])
    /\ stage_pc = "start"
    /\ up' = [UpIdle EXCEPT !.pending = DOMAIN sources]
    /\ stage_pc' = "files"
    /\ UNCHANGED <<pureVars, env, sources, disk, processed_yaml, driver, tasks, walk,
                   calls, done, earlier, prev_out, rerun>>

\* process_yaml_file(yf) up to the loop over the design houses
S3Open(f) ==
    /\ Running(SCRIPTS[3])
    /\ stage_pc = "files"
    /\ f \in up.pending
    /\ IF sources[f] = Unparsable
       THEN \* the error is printed and the file left
            /\ up' = [up EXCEPT !.pending = @ \ {f}]
            /\ UNCHANGED <<driver, stage_pc>>
       ELSE IF fix_yaml_structure(sources[f]).raised
       THEN \* nothing catches the exception
            /\ up' = [up EXCEPT !.pending = @ \ {f}]
            /\ Exit(1)
       ELSE /\ up' = [up EXCEPT !.pending = @ \ {f},
                                !.file = f,
                                !.content = fix_yaml_structure(sources[f]).value.v,
                                !.todo = DOMAIN fix_yaml_structure(sources[f]).value.v,
                                !.changed_any = FALSE]
            /\ stage_pc' = "fragment"
            /\ UNCHANGED driver
    /\ UNCHANGED <<pureVars, env, sources, disk, processed_yaml, tasks, walk,
                   calls, done, earlier, prev_out, rerun>>

\* the pool of one design house: every product is submitted
S3Pool(dh) ==
    /\ Running(SCRIPTS[3])
    /\ stage_pc = "fragment"
    /\ dh \in up.todo
    /\ IF ~IsDict(up.content[dh])
       THEN /\ up' = [up EXCEPT !.todo = @ \ {dh}]
            /\ UNCHANGED stage_pc
       ELSE /\ up' = [up EXCEPT
                  !.design_house = dh,
                  !.updated_products = EmptyMap,
                  !.futures = [p \in DOMAIN up.content[dh].v |->
                                  Submitted(up.content[dh].v[p])]]
            /\ stage_pc' = "pool"
    /\ UNCHANGED <<pureVars, env, sources, disk, processed_yaml, driver, tasks, walk,
                   calls, done, earlier, prev_out, rerun>>

\* a worker runs upload_entry for one product; a record that is a dict is
\* the catalog's own object, and the worker's assignment to it shows there
S3Upload(p) ==
    /\ Running(SCRIPTS[3])
    /\ stage_pc \in {"pool", "crash"}
    /\ p \in DOMAIN up.futures
    /\ up.futures[p].state = "submitted"
    /\ \E answer \in UploadAnswers :
          LET dh == up.design_house
              details == up.futures[p].input
              r == upload_entry(dh, p, details, answer)
              target == UploadPath(dh, p, unify_details(details))
          IN /\ up' = [up EXCEPT
                   !.futures[p] = Future(details, r.result),
                   !.content[dh] =
                       IF IsDict(details) /\ ~r.result.raised
                       THEN Dict(Put(@.v, p, r.result.details))
                       ELSE @]
             /\ calls' = IF r.posted THEN Inc(calls, Op("upload", target)) ELSE calls
             /\ done' = IF r.hosted THEN done \cup {Op("upload", target)} ELSE done
    /\ UNCHANGED <<pureVars, env, sources, disk, processed_yaml, driver, stage_pc, tasks,
                   walk, earlier, prev_out, rerun>>

\* a slip: the result is stored at the first free key, in arrival order
S3FoldByArrival(p) ==
    /\ Running(SCRIPTS[3])
    /\ stage_pc = "pool"
    /\ p \in DOMAIN up.futures
    /\ up.futures[p].state = "done"
    /\ IF up.futures[p].raised
       THEN /\ up' = [up EXCEPT !.crashed = TRUE]
            /\ stage_pc' = "crash"
       ELSE /\ up' = [up EXCEPT
                  !.futures[p].state = "folded",
                  !.changed_any = @ \/ up.futures[p].changed,
                  !.updated_products =
                      Put(@, CHOOSE q \in DOMAIN up.futures : q \notin DOMAIN @,
                          up.futures[p].details)]
            /\ UNCHANGED stage_pc
    /\ UNCHANGED <<pureVars, env, sources, disk, processed_yaml, driver, tasks, walk,
                   calls, done, earlier, prev_out, rerun>>

\* for future in as_completed(future_map): future.result() returns or raises
S3Fold(p) ==
    /\ Running(SCRIPTS[3])
    /\ stage_pc = "pool"
    /\ p \in DOMAIN up.futures
    /\ up.futures[p].state = "done"
    /\ IF up.futures[p].raised
       THEN /\ up' = [up EXCEPT !.crashed = TRUE]
            /\ stage_pc' = "crash"
       ELSE /\ up' = [up EXCEPT
                  !.futures[p].state = "folded",
                  !.changed_any = @ \/ up.futures[p].changed,
                  !.updated_products = Put(@, p, up.futures[p].details)]
            /\ UNCHANGED stage_pc
    /\ UNCHANGED <<pureVars, env, sources, disk, processed_yaml, driver, tasks, walk,
                   calls, done, earlier, prev_out, rerun>>

\* the pool is left: content[design_house] = updated_products
S3Join ==
    /\ Running(SCRIPTS[3])
    /\ stage_pc = "pool"
    /\ \A p \in DOMAIN up.futures : up.futures[p].state = "folded"
    /\ up' = [up EXCEPT !.content[up.design_house] = Dict(up.updated_products),
                        !.todo = @ \ {up.design_house},
                        !.futures = <<>>]
    /\ stage_pc' = "fragment"
    /\ UNCHANGED <<pureVars, env, sources, disk, processed_yaml, driver, tasks, walk,
                   calls, done, earlier, prev_out, rerun>>

\* a task's exception leaves the with block once the pool has run the
\* tasks still submitted, and ends the script
S3Crash ==
    /\ Running(SCRIPTS[3])
    /\ stage_pc = "crash"
    /\ \A p \in DOMAIN up.futures : up.futures[p].state \in {"done", "folded"}
    /\ Exit(1)
    /\ UNCHANGED <<pureVars, env, sources, disk, processed_yaml, tasks, walk, up,
                   calls, done, earlier, prev_out, rerun>>

\* yaml.dump(content, stream=open(output_path, "w"), sort_keys=False)
S3Write ==
    /\ Running(SCRIPTS[3])
    /\ stage_pc = "fragment"
    /\ up.todo = {}
    /\ processed_yaml' = Put(processed_yaml, up.file, Dict(up.content))
    /\ stage_pc' = "files"
    /\ UNCHANGED <<pureVars, env, sources, disk, driver, tasks, walk, up,
                   calls, done, earlier, prev_out, rerun>>

\* create_datatable(), PROCESSED_DIR.glob("*.yaml") yielding the files in
\* some order: the enriched fragments and, when there is one, datatable.yaml
S3Datatable ==
    /\ Running(SCRIPTS[3])
    /\ stage_pc = "files"
    /\ up.pending = {}
    /\ \E order \in Orders(DOMAIN processed_yaml) :
          LET st == MergeFold(MergeStart, [i \in DOMAIN order |-> processed_yaml[order[i]]])
          IN IF st.raised
             THEN /\ Exit(1)
                  /\ UNCHANGED processed_yaml
             ELSE /\ processed_yaml' =
                         Put(processed_yaml, "datatable.yaml", Dict(st.datatable))
                  /\ Exit(0)
    /\ UNCHANGED <<pureVars, env, sources, disk, tasks, walk, up,
                   calls, done, earlier, prev_out, rerun>>

-----------------------------------------------------------------------------
(* 4-generate-and-deploy.py reads data-yaml, which no other script writes:   *)
(* it ends well or not, whatever the pipeline did                            *)

S4Run ==
    /\ Running(SCRIPTS[4])
    /\ stage_pc = "start"
    /\ \E status \in {0, 1} : Exit(status)
    /\ UNCHANGED <<pureVars, env, sources, disk, processed_yaml, tasks, walk, up,
                   calls, done, earlier, prev_out, rerun>>

-----------------------------------------------------------------------------
(* The pipeline is run, and run again on the same source fragments *)

\* the run that ended called no service in vain
CleanRun == driver.pc = "completed" /\ DOMAIN calls \subseteq done

Rerun ==
    /\ driver.pc \in {"aborted", "completed"}
    /\ driver' = DriverStart
    /\ stage_pc' = "none"
    /\ tasks' = <<>>
    /\ walk' = {}
    /\ up' = UpIdle
    /\ calls' = <<>>
    /\ done' = {}
    /\ earlier' = earlier \cup done
    /\ prev_out' = [complete |-> CleanRun, out |-> processed_yaml]
    /\ rerun' = TRUE
    /\ UNCHANGED <<pureVars, env, sources, disk, processed_yaml>>

Init ==
    /\ arg = <<>> /\ ret = <<>> /\ pc = "pipeline"
    /\ \E s \in Setups :
          /\ env = s.env
          /\ sources = s.sources
          /\ disk = s.disk
    /\ processed_yaml = <<>>
    /\ driver = DriverStart
    /\ stage_pc = "none"
    /\ tasks = <<>>
    /\ walk = {}
    /\ up = UpIdle
    /\ calls = <<>>
    /\ done = {}
    /\ earlier = {}
    /\ prev_out = [complete |-> FALSE, out |-> <<>>]
    /\ rerun = FALSE

Next ==
    \/ DriverRun
    \/ S1Start
    \/ \E t \in DOMAIN tasks : S1Check(t) \/ S1Fetch(t)
    \/ S1Exit
    \/ S2Start
    \/ \E f \in walk : S2File(f)
    \/ S2Exit
    \/ S3Start
    \/ \E f \in up.pending : S3Open(f)
    \/ \E dh \in up.todo : S3Pool(dh)
    \/ \E p \in DOMAIN up.futures : S3Upload(p) \/ S3Fold(p)
    \/ S3Join
    \/ S3Crash
    \/ S3Write
    \/ S3Datatable
    \/ S4Run
    \/ Rerun

Spec == Init /\ [][Next]_vars

-----------------------------------------------------------------------------
(* Properties of the pipeline *)

StageExited(k) == Len(driver.exits) >= k

\* the fragment parses to a mapping that the repair accepts
WellFormed(f) ==
    /\ sources[f] # Unparsable
    /\ ~fix_yaml_structure(sources[f]).raised

Repaired(f) == fix_yaml_structure(sources[f]).value.v

\* every product of the well-formed fragment f is in the catalog
Carries(catalog, f) ==
    \A dh \in DOMAIN Repaired(f) :
       /\ dh \in DOMAIN catalog.v
       /\ IsDict(catalog.v[dh])
       /\ \A p \in DOMAIN Repaired(f)[dh].v : p \in DOMAIN catalog.v[dh].v

ImageOf(d) == IF IsDict(d) /\ Image \in DOMAIN d.v THEN d.v[Image] ELSE None

\* C9: the driver starts the four scripts in the fixed order, each only after
\* the one before it has exited with status zero; a non-zero exit makes it
\* stop at once, start no later script and exit non-zero itself; it ends
\* well only when all four scripts have exited with zero.
C9_DriverSequential ==
    /\ Len(driver.started) <= Len(SCRIPTS)
    /\ driver.started = SubSeq(SCRIPTS, 1, Len(driver.started))
    /\ Len(driver.exits) <= Len(driver.started)
    /\ Len(driver.started) <= Len(driver.exits) + 1
    /\ \A k \in 2..Len(driver.started) : driver.exits[k - 1] = 0
    /\ \A k \in 1..Len(driver.exits) :
          driver.exits[k] # 0 =>
             /\ Len(driver.started) = k
             /\ driver.pc = "aborted"
             /\ driver.exit_code # 0
    /\ driver.pc = "aborted" =>
          /\ driver.exits # <<>>
          /\ driver.exits[Len(driver.exits)] # 0
    /\ driver.pc = "completed" =>
          /\ driver.started = SCRIPTS
          /\ Len(driver.exits) = Len(SCRIPTS)
          /\ \A k \in 1..Len(SCRIPTS) : driver.exits[k] = 0
          /\ driver.exit_code = 0

\* the upload script has exited non-zero after two zero exits, and the
\* driver has stopped before the deploy script
C9_Witness ==
    /\ driver.pc = "aborted"
    /\ driver.exits = <<0, 0, 1>>
    /\ driver.started = SubSeq(SCRIPTS, 1, 3)

\* C1: in a run over source fragments that an earlier run has already been
\* through, no service is called for an artifact that an earlier run has
\* obtained from it, and when the run before went through without a failure
\* the catalogs written are the ones that run wrote.
C1_SecondRunIdempotent ==
    rerun =>
       /\ \A c \in DOMAIN calls : c \notin earlier
       /\ (prev_out.complete /\ StageExited(3) /\ driver.exits[3] = 0) =>
             processed_yaml = prev_out.out

\* C2: a task that fails takes nothing else down: the coordinator of a pool
\* never dies of a task's exception, discovery ends with every task run, and
\* over well-formed fragments the upload script exits with zero having
\* written every fragment with every product in it.
C2_TaskFailureIsolated ==
    /\ stage_pc # "crash"
    /\ StageExited(1) => \A t \in DOMAIN tasks : tasks[t].state = "done"
    /\ (StageExited(3) /\ \A f \in DOMAIN sources : WellFormed(f)) =>
          /\ driver.exits[3] = 0
          /\ \A f \in DOMAIN sources :
                /\ f \in DOMAIN processed_yaml
                /\ Carries(processed_yaml[f], f)

\* C3: a task whose network call failed (it raised, answered with an error
\* status, or answered without the expected field) has written no file,
\* reports changed = false and leaves the record's image as it was.
C3_FailedTaskNoOp ==
    /\ \A t \in DOMAIN tasks :
          tasks[t].net \in {"http_error", "raised"} => ~tasks[t].wrote
    /\ \A p \in DOMAIN up.futures :
          up.futures[p].net \in {"http_error", "raised", "no_url"} =>
             /\ ~up.futures[p].changed
             /\ ImageOf(up.futures[p].details) =
                   ImageOf(unify_details(up.futures[p].input))

\* C8: a malformed fragment is left out and nothing more: discovery builds
\* the tasks of every other fragment, and the upload script, unless a task
\* brought it down, writes every other fragment and a datatable with their
\* products.
C8_MalformedFragmentIsolated ==
    /\ (StageExited(1) \/ stage_pc = "run") =>
          \A f \in DOMAIN sources :
             (sources[f].t = "items" /\ IsDict(safe_load(sources[f]).value)) =>
                \A dh \in DOMAIN safe_load(sources[f]).value.v :
                   IsDict(safe_load(sources[f]).value.v[dh]) =>
                      \A p \in DOMAIN safe_load(sources[f]).value.v[dh].v :
                         <<dh, p>> \in DOMAIN tasks
    /\ (StageExited(3) /\ ~up.crashed) =>
          /\ "datatable.yaml" \in DOMAIN processed_yaml
          /\ \A f \in DOMAIN sources :
                WellFormed(f) =>
                   /\ f \in DOMAIN processed_yaml
                   /\ Carries(processed_yaml[f], f)
                   /\ Carries(processed_yaml["datatable.yaml"], f)

\* C10: a script whose credential is not set ends with a non-zero status
\* before it does anything: discovery runs no task, background removal
\* calls no service, and the upload script writes no catalog.
C10_MissingCredentialFatal ==
    /\ "SERP_API_KEY" \notin env =>
          /\ \A t \in DOMAIN tasks : tasks[t].state = "queued"
          /\ StageExited(1) => driver.exits[1] # 0
    /\ "REPLICATE_API_TOKEN" \notin env =>
          /\ \A c \in DOMAIN calls : c.kind # "removal"
          /\ StageExited(2) => driver.exits[2] # 0
    /\ "IBB_API_KEY" \notin env =>
          /\ \A c \in DOMAIN calls : c.kind # "upload"
          /\ processed_yaml = prev_out.out
          /\ StageExited(3) => driver.exits[3] # 0

-----------------------------------------------------------------------------
(* SpecSanitize: sanitize_name of both scripts applied to every name of at   *)
(* most MaxNameLen characters, and applied again to its own result           *)

MaxNameLen == 3

\* an upper-case and a lower-case letter, a digit, and two characters
\* outside [a-z0-9]
NameChars == {"A", "a", "1", "-", " "}

Names == UNION {[1..n -> NameChars] : n \in 0..MaxNameLen}

InitSanitize ==
    /\ arg \in Names
    /\ ret = [find |-> <<>>, upload |-> <<>>, again |-> <<>>]
    /\ pc = "sanitize"
    /\ PipeOff

\* the name is sanitized by the discovery script and by the upload script
SanitizeCall ==
    /\ pc = "sanitize"
    /\ ret' = [ret EXCEPT !.find = sanitize_name_find(arg),
                          !.upload = sanitize_name_upload(arg)]
    /\ pc' = "sanitized"
    /\ UNCHANGED <<arg, pipeVars>>

\* the slug is sanitized again
SanitizeAgain ==
    /\ pc = "sanitized"
    /\ ret' = [ret EXCEPT !.again = sanitize_name_upload(ret.upload)]
    /\ pc' = "resanitized"
    /\ UNCHANGED <<arg, pipeVars>>

NextSanitize == SanitizeCall \/ SanitizeAgain

SpecSanitize == InitSanitize /\ [][NextSanitize]_vars

\* the character is a letter or a digit, in either case
AlnumAnyCase(c) == IsAlnum(lower(<<c>>)[1])

\* the names that differ from s only by the case of letters or by the
\* separator character used at a position
Variants(s) ==
    {t \in [DOMAIN s -> NameChars] :
        \A i \in DOMAIN s :
           IF AlnumAnyCase(s[i]) THEN lower(<<t[i]>>) = lower(<<s[i]>>)
           ELSE ~AlnumAnyCase(t[i])}

\* only [a-z0-9-], no leading, trailing or doubled dash
IsSlug(s) ==
    /\ \A i \in DOMAIN s : IsAlnum(s[i]) \/ s[i] = "-"
    /\ s # <<>> => s[1] # "-" /\ s[Len(s)] # "-"
    /\ \A i \in 1..(Len(s) - 1) : ~(s[i] = "-" /\ s[i + 1] = "-")

-----------------------------------------------------------------------------
(* Properties of the existence checks *)

\* C12: a worker that finds its artifact at the time of its check performs
\* no paid operation and changes nothing: a discovery task whose .jpg
\* exists ends without a search, the background removal leaves a file whose
\* .png exists without a removal call, and an upload task whose record has
\* an image with 'ibb.co' ends without an upload, the record and the
\* catalog as they were.
C12_CheckBeforePaidOperation ==
    [][/\ \A t \in DOMAIN tasks :
             (/\ t \in DOMAIN tasks'
              /\ tasks[t].state = "queued"
              /\ tasks'[t].state # "queued"
              /\ t[1].t = "str" /\ t[2].t = "str"
              /\ TaskPath(t) \in disk) =>
                 /\ tasks'[t].state = "done"
                 /\ calls' = calls
                 /\ disk' = disk
       /\ \A f \in walk \ walk' :
             dest_path(f) \in disk => calls' = calls /\ disk' = disk
       /\ \A p \in DOMAIN up.futures :
             (/\ p \in DOMAIN up'.futures
              /\ up.futures[p].state = "submitted"
              /\ up'.futures[p].state = "done"
              /\ AlreadyHosted(unify_details(up.futures[p].input))) =>
                 /\ calls' = calls
                 /\ disk' = disk
                 /\ ~up'.futures[p].changed
                 /\ up'.futures[p].details = up.futures[p].input
                 /\ up'.content = up.content
      ]_vars

\* in a later run a discovery task found its .jpg, the .png was there
\* without a removal call of this run, and an upload task found its record
\* hosted
C12_Witness ==
    /\ rerun
    /\ \E t \in DOMAIN tasks :
          /\ tasks[t].net = "skipped"
          /\ dest_path(TaskPath(t)) \in disk
          /\ Op("removal", dest_path(TaskPath(t))) \notin DOMAIN calls
    /\ StageExited(2)
    /\ \E p \in DOMAIN up.futures : up.futures[p].net = "skipped"

-----------------------------------------------------------------------------
(* Properties of the upload pool *)

\* C13: a step of a worker (a submitted task runs upload_entry) leaves the
\* fragment catalog at hand as it was: only the coordinator writes to it.
C13_WorkersLeaveCatalog ==
    [][\A p \in DOMAIN up.futures :
          (/\ p \in DOMAIN up'.futures
           /\ up.futures[p].state = "submitted"
           /\ up'.futures[p].state = "done") =>
              up'.content = up.content
      ]_vars

\* the record is a result that upload_entry can compute from this input
ResultOf(record, input) ==
    \/ record = input
    \/ record = unify_details(input)
    \/ \E url \in {HostedUrl, StrV(<<>>)} :
          record = Dict(Put(unify_details(input).v, Image, url))

\* C14: whatever the order in which the tasks of a pool complete, a result
\* is folded under the key of the product it was computed for, from that
\* product's own record, and a fragment that is written holds, for each
\* design house, exactly one entry per product submitted, each a result of
\* that product's record.
C14_FoldByKey ==
    /\ stage_pc \in {"pool", "crash"} =>
          /\ \A p \in DOMAIN up.futures :
                /\ up.futures[p].input = Repaired(up.file)[up.design_house].v[p]
                /\ (up.futures[p].state = "folded") = (p \in DOMAIN up.updated_products)
                /\ up.futures[p].state = "folded" =>
                      /\ up.updated_products[p] = up.futures[p].details
                      /\ ResultOf(up.futures[p].details, up.futures[p].input)
          /\ DOMAIN up.updated_products \subseteq DOMAIN up.futures
    /\ \A f \in (DOMAIN processed_yaml) \cap (DOMAIN sources) :
          \A dh \in DOMAIN Repaired(f) :
             /\ DOMAIN processed_yaml[f].v[dh].v = DOMAIN Repaired(f)[dh].v
             /\ \A p \in DOMAIN Repaired(f)[dh].v :
                   ResultOf(processed_yaml[f].v[dh].v[p], Repaired(f)[dh].v[p])

\* two tasks of one pool have been folded, with different results
C14_Witness ==
    /\ stage_pc = "pool"
    /\ \E p, q \in DOMAIN up.futures :
          /\ p # q
          /\ up.futures[p].state = "folded"
          /\ up.futures[q].state = "folded"
          /\ up.futures[p].details # up.futures[q].details
          /\ up.futures[p].changed

-----------------------------------------------------------------------------
(* Properties of the merge order *)

\* the file names, in sorted order
FileNames == <<"a.yaml", "b.yaml", "datatable.yaml">>

Rank(file) == CHOOSE i \in DOMAIN FileNames : FileNames[i] = file

\* the files in the order of their names
Sorted(files) ==
    CHOOSE o \in Orders(files) : \A i, j \in DOMAIN o : i < j => Rank(o[i]) < Rank(o[j])

Fragments == (DOMAIN processed_yaml) \ {"datatable.yaml"}

\* the datatable that the enriched fragments make when merged in this order
DatatableOf(order) ==
    Dict(MergeFold(MergeStart, [i \in DOMAIN order |-> processed_yaml[order[i]]]).datatable)

\* C15: the fragments are loaded and merged in the order of their file
\* names: the tasks of discovery are those of the catalog loaded in that
\* order, and the datatable of a first run is the merge of the enriched
\* fragments in that order.
C15_StableMergeOrder ==
    /\ (stage_pc = "run" \/ StageExited(1)) =>
          /\ DOMAIN tasks = TaskIds(load_products(Sorted(DOMAIN sources)))
          /\ \A t \in DOMAIN tasks :
                tasks[t].year = load_products(Sorted(DOMAIN sources))[t[1]][t[2]]
    /\ (~rerun /\ "datatable.yaml" \in DOMAIN processed_yaml) =>
          processed_yaml["datatable.yaml"] = DatatableOf(Sorted(Fragments))

\* C16: the datatable that a run of the upload script has written is a merge
\* of the enriched fragments alone, in some order: nothing in it comes from
\* the datatable.yaml of a run before.
C16_DatatableRebuiltFresh ==
    (StageExited(3) /\ driver.exits[3] = 0) =>
       \E order \in Orders(Fragments) :
          processed_yaml["datatable.yaml"] = DatatableOf(order)

-----------------------------------------------------------------------------
(* Properties of the paths *)

\* the path at which discovery is to put the image of a product with this
\* record: <slug(design house)>/<slug(product)>-<year>.jpg
DiscoveryPath(dh, p, record) ==
    save_path(sanitize_name_find(dh.v), sanitize_name_find(p.v),
              YearOf(unify_details(record)))

\* C17: for every product of every source fragment, after the repair of
\* the '__' encoding, discovery has a task that writes
\* <slug(design house)>/<slug(product)>-<year>.jpg with the year of the
\* product's record, and the .png that the upload script looks up is the
\* mirror of that path.
C17_SamePathInEveryStage ==
    (stage_pc = "run" \/ StageExited(1)) =>
       \A f \in DOMAIN sources :
          WellFormed(f) =>
             \A dh \in DOMAIN Repaired(f) :
                \A p \in DOMAIN Repaired(f)[dh].v :
                   /\ <<dh, p>> \in DOMAIN tasks
                   /\ TaskPath(<<dh, p>>) = DiscoveryPath(dh, p, Repaired(f)[dh].v[p])
                   /\ dest_path(TaskPath(<<dh, p>>)) =
                         UploadPath(dh, p, unify_details(Repaired(f)[dh].v[p]))

\* C19: in a run of discovery, whatever the interleaving of the workers, no
\* target path is searched for more than once and none is written more
\* than once.
C19_AtMostOncePerPath ==
    /\ \A c \in DOMAIN calls : c.kind = "search" => calls[c] <= 1
    /\ \A t, u \in DOMAIN tasks :
          (tasks[t].wrote /\ tasks[u].wrote /\ TaskPath(t) = TaskPath(u)) => t = u

-----------------------------------------------------------------------------
(* Properties of the repair as a whole *)

\* the product entries of the input: the products of a mapping-valued
\* design-house key, and the '__'-prefixed keys
InputEntries ==
    UNION {IF Prefixed(arg[i][1]) THEN {<<i, arg[i][1]>>}
           ELSE IF IsDict(arg[i][2]) THEN {<<i, q>> : q \in DOMAIN arg[i][2].v}
           ELSE {} : i \in DOMAIN arg}

\* the product entries of the output
OutputEntries ==
    UNION {{<<dh, q>> : q \in DOMAIN ret.new_content[dh].v} : dh \in DOMAIN ret.new_content}

\* C20: when fix_yaml_structure returns, every product of a mapping-valued
\* design-house key is in the output under that design house with its
\* value, every '__'-prefixed key is in the output under the design house
\* it belongs to with its value, and the output has as many product entries
\* as the input: no two entries have collapsed into one.
C20_FixLosesNoEntry ==
    pc = "fixed" =>
       /\ ~ret.raised
       /\ \A i \in DOMAIN arg :
             LET key == arg[i][1]
                 value == arg[i][2]
                 nc == ret.new_content
             IN IF Prefixed(key)
                THEN /\ HouseAt(i) \in DOMAIN nc
                     /\ LeadingStripped(key) \in DOMAIN nc[HouseAt(i)].v
                     /\ nc[HouseAt(i)].v[LeadingStripped(key)] = value
                ELSE /\ key \in DOMAIN nc
                     /\ IsDict(value) =>
                           \A q \in DOMAIN value.v :
                              /\ q \in DOMAIN nc[key].v
                              /\ nc[key].v[q] = value.v[q]
       /\ Cardinality(OutputEntries) = Cardinality(InputEntries)

-----------------------------------------------------------------------------
(* SpecLive: the pipeline with every step that can be taken eventually taken *)

SpecLive == Init /\ [][Next]_vars /\ WF_vars(Next)

\* C18: a script that has been started eventually exits, also when a
\* service never answers.
C18_EveryStageTerminates == (driver.pc = "wait") ~> (driver.pc # "wait")

====
